---- MODULE Spec2Model ----
(***************************************************************************)
(* Vizier / Telekinesis animation pipeline.                                *)
(*                                                                         *)
(* The module models                                                       *)
(*   - the easing and arc mathematics of the planner,                      *)
(*   - the planner's frame schedule,                                       *)
(*   - the LangGraph state machine                                         *)
(*       analyzer -> principles -> planner -> generator -> validator       *)
(*       -> (refiner | planner | END)                                      *)
(*     with its routing function route_from_validator.                     *)
(*                                                                         *)
(* Numbers.  Progress values, positions and intensities are exact          *)
(* rationals <<numerator, denominator>> in lowest terms.  Quality scores   *)
(* are integers in tenths of a point (8.0 is 80).                          *)
(***************************************************************************)
EXTENDS Integers, Sequences, FiniteSets, TLC

VARIABLES
    pc,                 \* the node of the graph that runs next
    keyframes,          \* the two keyframe images (what can be extracted from them)
    instruction,        \* the frame count the instruction asks for, 0 when none
    analysis,           \* state["analysis"]
    animation_principles, \* state["animation_principles"]
    plan,               \* state["plan"]
    frames,             \* state["frames"]
    refined_frames,     \* state["refined_frames"]
    validation,         \* state["validation"]
    iteration_count,    \* state["iteration_count"]
    error,              \* the exception that ended the run, "none" otherwise
    result,             \* what generate_frames_advanced returned
    hist,               \* bookkeeping of the run: what happened so far
    m_args,             \* pure-function harness: the inputs drawn
    m_out,              \* pure-function harness: the value computed
    app,                \* frontend: the App component's state
    hook,               \* frontend: the state of useJobStatus
    net,                \* frontend: requests in flight and timers alive
    canvas              \* frontend: the PreviewCanvas component's props and state

vars == <<pc, keyframes, instruction, analysis, animation_principles, plan,
          frames, refined_frames, validation, iteration_count, error, result,
          hist, m_args, m_out, app, hook, net, canvas>>

pipeline_vars == <<pc, keyframes, instruction, analysis, animation_principles,
                   plan, frames, refined_frames, validation, iteration_count,
                   error, result, hist>>

math_vars == <<m_args, m_out>>

ui_vars == <<app, hook, net, canvas>>

\* An optional value: <<>> when the key is not set, <<v>> when it holds v.
Unset == <<>>
Some(v) == <<v>>

-----------------------------------------------------------------------------
(* Exact rational arithmetic.                                              *)

RECURSIVE GCD(_, _)
GCD(a, b) == IF b = 0 THEN a ELSE GCD(b, a % b)

IAbs(n) == IF n < 0 THEN -n ELSE n

\* n/d in lowest terms with a positive denominator.
Rat(n, d) ==
    LET s == IF d < 0 THEN -1 ELSE 1
        g == GCD(IAbs(n), IAbs(d))
    IN  <<(s * n) \div g, (s * d) \div g>>

Zero == Rat(0, 1)
One == Rat(1, 1)
Half == Rat(1, 2)

RAdd(a, b) == Rat(a[1] * b[2] + b[1] * a[2], a[2] * b[2])
RSub(a, b) == Rat(a[1] * b[2] - b[1] * a[2], a[2] * b[2])
RMul(a, b) == Rat(a[1] * b[1], a[2] * b[2])
RNeg(a) == <<-a[1], a[2]>>
RLt(a, b) == a[1] * b[2] < b[1] * a[2]
RLe(a, b) == a[1] * b[2] <= b[1] * a[2]
RAbs(a) == <<IAbs(a[1]), a[2]>>

-----------------------------------------------------------------------------
(* Easing.                                                                 *)

TimingCurves == {"linear", "ease-in", "ease-out", "ease-in-out"}

\* t ** 2
ease_in(t) == RMul(t, t)

\* 1 - (1 - t) ** 2
ease_out(t) == RSub(One, RMul(RSub(One, t), RSub(One, t)))

\* Mutant: the first half's formula used over the whole range.
ease_in_out_single_branch(t) == RMul(Rat(2, 1), RMul(t, t))

\* 2 * t ** 2 below the midpoint, 1 - 2 * (1 - t) ** 2 from it on
ease_in_out(t) ==
    IF RLt(t, Half)
    THEN RMul(Rat(2, 1), RMul(t, t))
    ELSE RSub(One, RMul(Rat(2, 1), RMul(RSub(One, t), RSub(One, t))))

\* t_eased = apply_easing_curve(t_linear, timing_curve)
apply_easing_curve(t, curve) ==
    CASE curve = "linear" -> t
      [] curve = "ease-in" -> ease_in(t)
      [] curve = "ease-out" -> ease_out(t)
      [] curve = "ease-in-out" -> ease_in_out(t)

-----------------------------------------------------------------------------
(* Arc paths.  A position is <<x, y>> in normalized image coordinates.     *)

ArcTypes == {"none", "parabolic"}

\* (1 - t) * a + t * b
lerp(a, b, t) == RAdd(RMul(RSub(One, t), a), RMul(t, b))

\* The travel distance the arc height is proportional to.
distance(start_pos, end_pos) == RAbs(RSub(end_pos[1], start_pos[1]))

\* Mutant: the (1 - t) factor of the parabola dropped.
arc_offset_without_one_minus_t(start_pos, end_pos, t, intensity) ==
    LET arc_height == RMul(RMul(distance(start_pos, end_pos), intensity), Rat(3, 10))
    IN  RMul(RNeg(arc_height), RMul(Rat(4, 1), t))

\* arc_offset = -arc_height * 4 * t * (1 - t), arc_height = distance * intensity * 0.3
arc_offset(start_pos, end_pos, t, intensity) ==
    LET arc_height == RMul(RMul(distance(start_pos, end_pos), intensity), Rat(3, 10))
    IN  RMul(RNeg(arc_height), RMul(Rat(4, 1), RMul(t, RSub(One, t))))

calculate_parabolic_arc(start_pos, end_pos, t, intensity) ==
    LET x == lerp(start_pos[1], end_pos[1], t)
        y_linear == lerp(start_pos[2], end_pos[2], t)
    IN  <<x, RAdd(y_linear, arc_offset(start_pos, end_pos, t, intensity))>>

\* The dispatcher over arc types; a straight line when there is no arc.
calculate_arc_path(start_pos, end_pos, arc_type, arc_intensity, t) ==
    IF arc_type = "parabolic"
    THEN calculate_parabolic_arc(start_pos, end_pos, t, arc_intensity)
    ELSE <<lerp(start_pos[1], end_pos[1], t), lerp(start_pos[2], end_pos[2], t)>>

-----------------------------------------------------------------------------
(* Planner.                                                                *)

Energies == {"very-slow", "slow", "medium", "fast", "very-fast", "explosive"}

MinFrames == 2
MaxFrames == 32

\* A requested frame count is honoured within [MinFrames, MaxFrames].
clamp_frame_count(n) ==
    IF n < MinFrames THEN MinFrames ELSE IF n > MaxFrames THEN MaxFrames ELSE n

\* Frames per motion energy.
energy_frame_count(energy) ==
    CASE energy = "very-slow" -> 16
      [] energy = "slow" -> 12
      [] energy = "medium" -> 8
      [] energy = "fast" -> 6
      [] energy \in {"very-fast", "explosive"} -> 4

\* Mutant: the count named in the instruction is ignored.
determine_frame_count_energy_only(requested, energy) == energy_frame_count(energy)

\* requested = 0: the instruction names no count.
determine_frame_count(requested, energy) ==
    IF requested # 0 THEN clamp_frame_count(requested) ELSE energy_frame_count(energy)

\* Mutant: progress divided by num_frames instead of num_frames - 1.
schedule_entry_div_num_frames(i, num_frames, timing_curve) ==
    LET t_linear == Rat(i, num_frames)
    IN  [frame_index |-> i,
         t_linear |-> t_linear,
         t |-> apply_easing_curve(t_linear, timing_curve),
         arc_position |-> <<>>]

\* One schedule entry; arc_position is <<>> when the entry carries none.
schedule_entry(i, num_frames, timing_curve) ==
    LET t_linear == Rat(i, num_frames - 1)
    IN  [frame_index |-> i,
         t_linear |-> t_linear,
         t |-> apply_easing_curve(t_linear, timing_curve),
         arc_position |-> <<>>]

\* Mutant: the arc is evaluated at the linear progress, not the eased one.
with_arc_position_at_t_linear(entry, start_pos, end_pos, arc_type, arc_intensity) ==
    IF arc_type # "none" /\ RLt(Zero, arc_intensity)
    THEN [entry EXCEPT !.arc_position =
            <<calculate_arc_path(start_pos, end_pos, arc_type, arc_intensity,
                                 entry.t_linear)>>]
    ELSE entry

\* The planner's arc step: positions are attached when an arc is planned.
with_arc_position(entry, start_pos, end_pos, arc_type, arc_intensity) ==
    IF arc_type # "none" /\ RLt(Zero, arc_intensity)
    THEN [entry EXCEPT !.arc_position =
            <<calculate_arc_path(start_pos, end_pos, arc_type, arc_intensity, entry.t)>>]
    ELSE entry

\* Mutant: the loop stops one frame short (range(num_frames - 1)).
frame_schedule_one_short(num_frames, timing_curve, start_pos, end_pos, arc_type, arc_intensity) ==
    [k \in 1..(num_frames - 1) |->
        with_arc_position(schedule_entry(k - 1, num_frames, timing_curve),
                          start_pos, end_pos, arc_type, arc_intensity)]

\* The schedule: one entry per frame, in frame order.
frame_schedule(num_frames, timing_curve, start_pos, end_pos, arc_type, arc_intensity) ==
    [k \in 1..num_frames |->
        with_arc_position(schedule_entry(k - 1, num_frames, timing_curve),
                          start_pos, end_pos, arc_type, arc_intensity)]

\* The plan the planner builds from its inputs.
build_plan(requested, energy, timing_curve, arc_type, arc_intensity, start_pos, end_pos) ==
    LET n == determine_frame_count(requested, energy)
    IN  [num_frames |-> n,
         timing_curve |-> timing_curve,
         arc_type |-> arc_type,
         arc_intensity |-> arc_intensity,
         start_position |-> start_pos,
         end_position |-> end_pos,
         frame_schedule |-> frame_schedule(n, timing_curve, start_pos, end_pos,
                                           arc_type, arc_intensity)]

\* InvalidPlan: the plan is rejected at the planner's boundary.
valid_plan(p) ==
    /\ p.num_frames >= MinFrames
    /\ RLe(Zero, p.arc_intensity)
    /\ RLe(p.arc_intensity, One)

-----------------------------------------------------------------------------
(* What the collaborators can answer (bounded).                            *)

Pos(xn, xd, yn, yd) == <<Rat(xn, xd), Rat(yn, yd)>>

DefaultPosition == Pos(1, 2, 1, 2)

\* Motion analyses Claude Vision can return.
AnalyzerOutputs ==
    {[motion_type |-> m, motion_energy |-> e,
      object_positions |-> Some(<<Pos(1, 5, 1, 2), Pos(4, 5, 1, 2)>>),
      status |-> "claude_vision_analyzed"] :
        <<m, e>> \in {<<"translation", "medium">>, <<"deformation", "explosive">>}}

\* The analysis substituted when the Analyzer fails.
FallbackAnalysis ==
    [motion_type |-> "translation", motion_energy |-> "medium",
     object_positions |-> Unset, status |-> "fallback"]

\* Arc principles with an intensity in [0, 1] (the detector's contract).
ArcPrinciples ==
    {Unset} \cup
    {Some([arc_type |-> "parabolic", arc_intensity |-> a]) : a \in {Zero, Half, One}}

EasePrinciples == {Unset, Some([ease_type |-> "ease-in-out"])}

\* Principle sets the detector can return; timing is always present.
DetectorOutputs ==
    {[arc |-> a, slow_in_slow_out |-> s, timing |-> TRUE, status |-> "claude_detected"] :
        a \in ArcPrinciples, s \in EasePrinciples}

\* The heuristic principle set used when detection fails.
FallbackPrinciples(an) ==
    [arc |-> IF an.motion_type \in {"rotation", "translation"}
             THEN Some([arc_type |-> "parabolic", arc_intensity |-> Half])
             ELSE Unset,
     slow_in_slow_out |-> IF an.motion_energy \in {"slow", "medium"}
                          THEN Some([ease_type |-> "ease-in-out"])
                          ELSE Unset,
     timing |-> TRUE,
     status |-> "fallback"]

\* Principle sets outside the detector's contract as well: any intensity.
AnyArcPrinciples ==
    ArcPrinciples \cup
    {Some([arc_type |-> "parabolic", arc_intensity |-> a]) :
        a \in {Rat(-1, 2), Rat(3, 2)}}

AnyPrinciples ==
    {[arc |-> a, slow_in_slow_out |-> s, timing |-> TRUE, status |-> "claude_detected"] :
        a \in AnyArcPrinciples, s \in EasePrinciples}

\* Largest requested frame count explored.
MaxRequested == 34

\* Quality thresholds, in tenths of a point.
Q_END == 80
Q_REPLAN == 60
REPLAN_BUDGET == 2
REFINE_BUDGET == 3

\* Overall scores the Validator can return (tenths).
ValidatorScores == {Q_REPLAN - 10, Q_REPLAN, Q_END - 1, Q_END}

\* The neutral report substituted when the Validator fails.
FallbackScore == 80

\* A refiner pass runs when its dimension scores below 7 (tenths).
PASS_THRESHOLD == 70

\* Per-dimension scores the Validator can return: each below or at the threshold.
DimensionScores ==
    [motion_smoothness : {PASS_THRESHOLD - 1, PASS_THRESHOLD},
     artifact_score : {PASS_THRESHOLD - 1, PASS_THRESHOLD},
     style_consistency : {PASS_THRESHOLD - 1, PASS_THRESHOLD}]

\* Reports the Validator can return.  Every combination of dimensions comes
\* with the overall score just below "good enough"; with the other overall
\* scores each dimension scores as the whole.
ValidatorReports ==
    {[overall_quality_score |-> Q_END - 1, dimensions |-> d] : d \in DimensionScores}
    \cup
    {[overall_quality_score |-> q,
      dimensions |-> [motion_smoothness |-> q, artifact_score |-> q,
                      style_consistency |-> q]] :
        q \in ValidatorScores \ {Q_END - 1}}

-----------------------------------------------------------------------------
(* The agents.                                                             *)

\* Bound on the loop transitions explored; the routing budget stays below it.
MaxLoops == 5

IsSet(opt) == Len(opt) = 1

Loops == hist.n_replan + hist.n_refine

\* Mutant: the Analyzer's exception is not caught and ends the run.
analyzer_agent_raising ==
    /\ pc = "analyzer"
    /\ \E ok \in BOOLEAN :
          /\ IF ok
             THEN /\ \E a \in AnalyzerOutputs : analysis' = Some(a)
                  /\ pc' = "principles"
                  /\ error' = error
             ELSE /\ analysis' = analysis
                  /\ pc' = "failed"
                  /\ error' = "AnalyzerError"
          /\ hist' = [hist EXCEPT !.analyzer_failed = ~ok]
    /\ UNCHANGED <<keyframes, instruction, animation_principles, plan, frames,
                   refined_frames, validation, iteration_count, result>>
    /\ UNCHANGED <<math_vars, ui_vars>>

\* ANALYZER: Claude Vision analysis, placeholder analysis when the call fails.
analyzer_agent ==
    /\ pc = "analyzer"
    /\ \E ok \in BOOLEAN :
          /\ IF ok
             THEN \E a \in AnalyzerOutputs : analysis' = Some(a)
             ELSE analysis' = Some(FallbackAnalysis)
          /\ hist' = [hist EXCEPT !.analyzer_failed = ~ok]
    /\ pc' = "principles"
    /\ UNCHANGED <<keyframes, instruction, animation_principles, plan, frames,
                   refined_frames, validation, iteration_count, error, result>>
    /\ UNCHANGED <<math_vars, ui_vars>>

\* PRINCIPLES: Claude detection, heuristic principles when detection fails.
principles_agent ==
    /\ pc = "principles"
    /\ \E ok \in BOOLEAN :
          /\ IF ok
             THEN \E p \in DetectorOutputs : animation_principles' = Some(p)
             ELSE animation_principles' = Some(FallbackPrinciples(analysis[1]))
          /\ hist' = [hist EXCEPT !.principles_failed = ~ok]
    /\ pc' = "planner"
    /\ UNCHANGED <<keyframes, instruction, analysis, plan, frames, refined_frames,
                   validation, iteration_count, error, result>>
    /\ UNCHANGED <<math_vars, ui_vars>>

\* start and end position of the object, (0.5, 0.5) when the analysis has none
extract_object_positions_from_analysis(an) ==
    IF IsSet(an.object_positions)
    THEN an.object_positions[1]
    ELSE <<DefaultPosition, DefaultPosition>>

\* Mutant: the arc intensity is clamped into [0, 1] instead of being passed on.
planned_clamping_intensity(an, pr, requested) ==
    LET timing_curve == IF IsSet(pr.slow_in_slow_out)
                        THEN pr.slow_in_slow_out[1].ease_type
                        ELSE "linear"
        arc_type == IF IsSet(pr.arc) THEN pr.arc[1].arc_type ELSE "none"
        given == IF IsSet(pr.arc) THEN pr.arc[1].arc_intensity ELSE Zero
        arc_intensity == IF RLt(given, Zero) THEN Zero
                         ELSE IF RLt(One, given) THEN One ELSE given
        positions == extract_object_positions_from_analysis(an)
    IN  build_plan(requested, an.motion_energy, timing_curve, arc_type,
                   arc_intensity, positions[1], positions[2])

\* The plan the planner derives from the state.
planned(an, pr, requested) ==
    LET timing_curve == IF IsSet(pr.slow_in_slow_out)
                        THEN pr.slow_in_slow_out[1].ease_type
                        ELSE "linear"
        arc_type == IF IsSet(pr.arc) THEN pr.arc[1].arc_type ELSE "none"
        arc_intensity == IF IsSet(pr.arc) THEN pr.arc[1].arc_intensity ELSE Zero
        positions == extract_object_positions_from_analysis(an)
    IN  build_plan(requested, an.motion_energy, timing_curve, arc_type,
                   arc_intensity, positions[1], positions[2])

\* What the planner can read from the state: analysis, principles, request.
PlannerInputs ==
    (AnalyzerOutputs \cup {FallbackAnalysis})
    \X (AnyPrinciples \cup {FallbackPrinciples(a) : a \in AnalyzerOutputs \cup {FallbackAnalysis}})
    \X (0..MaxRequested)

\* The planner's plan for each of its inputs, tabulated once (@@ makes the
\* function explicit, so that enabledness of PLANNER is a lookup).
PlanTable == [x \in PlannerInputs |-> planned(x[1], x[2], x[3])] @@ <<>>

\* PLANNER: builds the plan; an invalid plan ends the run before GENERATOR.
planner_agent ==
    /\ pc = "planner"
    /\ \E p \in {PlanTable[<<analysis[1], animation_principles[1], instruction>>]} :
          IF valid_plan(p)
          THEN /\ plan' = Some(p)
               /\ pc' = "generator"
               /\ error' = error
          ELSE /\ plan' = plan
               /\ pc' = "failed"
               /\ error' = "InvalidPlan"
    /\ hist' = [hist EXCEPT !.n_plan = @ + 1]
    /\ UNCHANGED <<keyframes, instruction, analysis, animation_principles, frames,
                   refined_frames, validation, iteration_count, result>>
    /\ UNCHANGED <<math_vars, ui_vars>>

\* Whether the schedule carries arc positions to warp to.
has_arc_positions(p) ==
    \E k \in 1..p.num_frames : IsSet(p.frame_schedule[k].arc_position)

\* Mutant: frames are produced for the in-between entries only.
generate_sequence_in_betweens_only(p, by, rev) ==
    [k \in 1..(Len(p.frame_schedule) - 1) |->
        [frame_index |-> p.frame_schedule[k + 1].frame_index,
         t |-> p.frame_schedule[k + 1].t,
         by |-> by,
         warped |-> by = "rife" /\ p.arc_type # "none"
                    /\ IsSet(p.frame_schedule[k + 1].arc_position),
         refined |-> FALSE,
         sources |-> {p.frame_schedule[k + 1].frame_index},
         passes |-> {},
         plan_rev |-> rev]]

\* Mutant: every sequence is marked as RIFE's, whatever produced it.
generate_sequence_marked_rife(p, by, rev) ==
    [k \in 1..Len(p.frame_schedule) |->
        [frame_index |-> p.frame_schedule[k].frame_index,
         t |-> p.frame_schedule[k].t,
         by |-> "rife",
         warped |-> by = "rife" /\ p.arc_type # "none"
                    /\ IsSet(p.frame_schedule[k].arc_position),
         refined |-> FALSE,
         sources |-> {p.frame_schedule[k].frame_index},
         passes |-> {},
         plan_rev |-> rev]]

\* One frame per schedule entry, produced by strategy `by`.
generate_sequence(p, by, rev) ==
    [k \in 1..Len(p.frame_schedule) |->
        [frame_index |-> p.frame_schedule[k].frame_index,
         t |-> p.frame_schedule[k].t,
         by |-> by,
         warped |-> by = "rife" /\ p.arc_type # "none"
                    /\ IsSet(p.frame_schedule[k].arc_position),
         refined |-> FALSE,
         sources |-> {p.frame_schedule[k].frame_index},
         passes |-> {},
         plan_rev |-> rev]]

\* Whether a GENERATOR pass runs the object extractor.
runs_extractor(p, use_rife) ==
    IF use_rife THEN p.arc_type # "none" /\ has_arc_positions(p) ELSE TRUE

\* Mutant: an error of RIFE ends the run instead of falling back.
generator_agent_rife_error_fatal ==
    /\ pc = "generator"
    /\ \E rife \in {"unavailable", "ok", "error"} :
          LET p == plan[1]
              use_rife == rife = "ok"
          IN  /\ IF rife = "error"
                 THEN /\ frames' = frames
                      /\ pc' = "failed"
                      /\ error' = "InterpolatorError"
                 ELSE IF runs_extractor(p, use_rife) /\ keyframes = "transparent"
                 THEN /\ frames' = frames
                      /\ pc' = "failed"
                      /\ error' = "NoObjectFound"
                 ELSE /\ frames' = Some(generate_sequence(
                                        p, IF use_rife THEN "rife" ELSE "object",
                                        hist.n_plan))
                      /\ pc' = "validator"
                      /\ error' = error
              /\ hist' = [hist EXCEPT !.rife_failed = @ \/ rife = "error",
                                      !.n_generate = @ + 1,
                                      !.n_is_available = @ + 1,
                                      !.after_refine = FALSE,
                                      !.last_strategy =
                                          IF use_rife THEN "rife" ELSE "object",
                                      !.last_rife = rife]
    /\ UNCHANGED <<keyframes, instruction, analysis, animation_principles, plan,
                   refined_frames, validation, iteration_count, result>>
    /\ UNCHANGED <<math_vars, ui_vars>>

\* GENERATOR: RIFE and arc warping when RIFE is available, object-based otherwise.
generator_agent ==
    /\ pc = "generator"
    /\ \E rife \in {"unavailable", "ok", "error"} :
          LET p == plan[1]
              use_rife == rife = "ok"
          IN  /\ IF runs_extractor(p, use_rife) /\ keyframes = "transparent"
                 THEN /\ frames' = frames
                      /\ pc' = "failed"
                      /\ error' = "NoObjectFound"
                 ELSE /\ frames' = Some(generate_sequence(
                                        p, IF use_rife THEN "rife" ELSE "object",
                                        hist.n_plan))
                      /\ pc' = "validator"
                      /\ error' = error
              /\ hist' = [hist EXCEPT !.rife_failed = @ \/ rife = "error",
                                      !.n_generate = @ + 1,
                                      !.n_is_available = @ + 1,
                                      !.after_refine = FALSE,
                                      !.last_strategy =
                                          IF use_rife THEN "rife" ELSE "object",
                                      !.last_rife = rife]
    /\ UNCHANGED <<keyframes, instruction, analysis, animation_principles, plan,
                   refined_frames, validation, iteration_count, result>>
    /\ UNCHANGED <<math_vars, ui_vars>>

\* The report stored in state["validation"].
validation_report(score, dimensions, status) ==
    [overall_quality_score |-> score,
     dimensions |-> dimensions,
     needs_refinement |-> score < Q_END,
     status |-> status]

\* validation.get(name, 10): a report without the dimension counts as 10.
dimension_score(v, name) ==
    IF IsSet(v.dimensions) /\ name \in DOMAIN v.dimensions[1]
    THEN v.dimensions[1][name]
    ELSE 100

\* sample_indices = [0, len//4, len//2, 3*len//4, -1]; -1 is the last frame.
sample_indices(n) == <<0, n \div 4, n \div 2, (3 * n) \div 4, n - 1>>

\* [frames[i] for i in sample_indices if i < len(frames)]
sample_frames(fs) ==
    [j \in 1..5 |-> fs[sample_indices(Len(fs))[j] + 1]]

\* VALIDATOR: Claude Vision assessment, neutral report when the call fails.
validator_agent ==
    /\ pc = "validator"
    /\ \E ok \in BOOLEAN :
          /\ IF ok
             THEN \E r \in ValidatorReports :
                     validation' = Some(validation_report(r.overall_quality_score,
                                                          Some(r.dimensions),
                                                          "claude_vision_validated"))
             ELSE validation' = Some(validation_report(FallbackScore, Unset, "fallback"))
          /\ hist' = [hist EXCEPT !.validator_failed = @ \/ ~ok,
                                  !.assessed = sample_frames(frames[1])]
    /\ pc' = "route"
    /\ UNCHANGED <<keyframes, instruction, analysis, animation_principles, plan,
                   frames, refined_frames, iteration_count, error, result>>
    /\ UNCHANGED <<math_vars, ui_vars>>

\* Mutant: the refine branch does not check the iteration budget.
route_from_validator_unbounded_refine(quality, iteration) ==
    IF quality >= Q_END THEN "end"
    ELSE IF quality < Q_REPLAN /\ iteration < REPLAN_BUDGET THEN "replan"
    ELSE IF quality >= Q_REPLAN THEN "refine"
    ELSE "end"

\* Mutant: "good enough" tested with > instead of >=.
route_from_validator_strict_end(quality, iteration) ==
    IF quality > Q_END THEN "end"
    ELSE IF quality < Q_REPLAN /\ iteration < REPLAN_BUDGET THEN "replan"
    ELSE IF quality >= Q_REPLAN /\ iteration < REFINE_BUDGET THEN "refine"
    ELSE "end"

\* Mutant: the refine branch tested before the "good enough" branch.
route_from_validator_refine_first(quality, iteration) ==
    IF quality >= Q_REPLAN /\ iteration < REFINE_BUDGET THEN "refine"
    ELSE IF quality >= Q_END THEN "end"
    ELSE IF quality < Q_REPLAN /\ iteration < REPLAN_BUDGET THEN "replan"
    ELSE "end"

\* Mutant: the replan branch allows one replan only.
route_from_validator_single_replan(quality, iteration) ==
    IF quality >= Q_END THEN "end"
    ELSE IF quality < Q_REPLAN /\ iteration < REPLAN_BUDGET - 1 THEN "replan"
    ELSE IF quality >= Q_REPLAN /\ iteration < REFINE_BUDGET THEN "refine"
    ELSE "end"

\* The decision of the conditional edge after VALIDATOR.
route_from_validator(quality, iteration) ==
    IF quality >= Q_END THEN "end"
    ELSE IF quality < Q_REPLAN /\ iteration < REPLAN_BUDGET THEN "replan"
    ELSE IF quality >= Q_REPLAN /\ iteration < REFINE_BUDGET THEN "refine"
    ELSE "end"

\* The node an edge label leads to.
edge_target(label) ==
    CASE label = "refine" -> "refiner"
      [] label = "replan" -> "planner"
      [] label = "end" -> "end"

\* The conditional edge: routes, and counts the iteration when it loops.
validator_edge ==
    /\ pc = "route"
    /\ Loops < MaxLoops
    /\ LET quality == validation[1].overall_quality_score
           next == route_from_validator(quality, iteration_count)
       IN  /\ iteration_count' = IF next = "end" THEN iteration_count
                                 ELSE iteration_count + 1
           /\ pc' = edge_target(next)
           /\ hist' = [hist EXCEPT
                         !.n_replan = IF next = "replan" THEN @ + 1 ELSE @,
                         !.n_refine = IF next = "refine" THEN @ + 1 ELSE @,
                         !.last_route = [quality |-> quality,
                                         iteration |-> iteration_count,
                                         next |-> next]]
    /\ UNCHANGED <<keyframes, instruction, analysis, animation_principles, plan,
                   frames, refined_frames, validation, error, result>>
    /\ UNCHANGED <<math_vars, ui_vars>>

\* Mutant: the average is taken only where the whole window fits, so the
\* first and the last frame are dropped.
temporal_smooth_full_windows_only(fs, kernel_size) ==
    LET n == Len(fs)
        r == kernel_size \div 2
    IN  [i \in 1..(n - 2 * r) |->
            [fs[i + r] EXCEPT
                !.sources = UNION {fs[j].sources : j \in i..(i + 2 * r)},
                !.passes = @ \cup {"temporal_smooth"}]]

\* Each frame becomes the weighted average of itself and its neighbours
\* range(max(0, i - kernel_size//2), min(n, i + kernel_size//2 + 1)).
temporal_smooth(fs, kernel_size) ==
    LET n == Len(fs)
        r == kernel_size \div 2
        lo(i) == IF i - r < 1 THEN 1 ELSE i - r
        hi(i) == IF i + r > n THEN n ELSE i + r
    IN  [i \in 1..n |->
            [fs[i] EXCEPT
                !.sources = UNION {fs[j].sources : j \in lo(i)..hi(i)},
                !.passes = @ \cup {"temporal_smooth"}]]

\* [cleanup_alpha_edges(f) for f in frame_arrays]
cleanup_alpha_edges(fs) ==
    [i \in 1..Len(fs) |-> [fs[i] EXCEPT !.passes = @ \cup {"alpha_cleanup"}]]

\* normalize_colors(frame_arrays, frames[0], frames[-1])
normalize_colors(fs) ==
    [i \in 1..Len(fs) |-> [fs[i] EXCEPT !.passes = @ \cup {"color_norm"}]]

\* Mutant: the smoothing pass also runs at a score of exactly 7.
refine_sequence_at_threshold(fs, v) ==
    LET smoothed == IF dimension_score(v, "motion_smoothness") <= PASS_THRESHOLD
                    THEN temporal_smooth(fs, 3) ELSE fs
        cleaned == IF dimension_score(v, "artifact_score") < PASS_THRESHOLD
                   THEN cleanup_alpha_edges(smoothed) ELSE smoothed
        normalized == IF dimension_score(v, "style_consistency") < PASS_THRESHOLD
                      THEN normalize_colors(cleaned) ELSE cleaned
    IN  [k \in 1..Len(normalized) |-> [normalized[k] EXCEPT !.refined = TRUE]]

\* The refined copy of a sequence (refined_frame_XXX.png for each frame):
\* each pass runs when the report scores its dimension below the threshold.
refine_sequence(fs, v) ==
    LET smoothed == IF dimension_score(v, "motion_smoothness") < PASS_THRESHOLD
                    THEN temporal_smooth(fs, 3) ELSE fs
        cleaned == IF dimension_score(v, "artifact_score") < PASS_THRESHOLD
                   THEN cleanup_alpha_edges(smoothed) ELSE smoothed
        normalized == IF dimension_score(v, "style_consistency") < PASS_THRESHOLD
                      THEN normalize_colors(cleaned) ELSE cleaned
    IN  [k \in 1..Len(normalized) |-> [normalized[k] EXCEPT !.refined = TRUE]]

\* REFINER: writes state["refined_frames"] and counts an iteration.
refiner_agent ==
    /\ pc = "refiner"
    /\ refined_frames' = Some(refine_sequence(frames[1], validation[1]))
    /\ iteration_count' = iteration_count + 1
    /\ pc' = "validator"
    /\ hist' = [hist EXCEPT !.after_refine = TRUE]
    /\ UNCHANGED <<keyframes, instruction, analysis, animation_principles, plan,
                   frames, validation, error, result>>
    /\ UNCHANGED <<math_vars, ui_vars>>

\* state.get("refined_frames") or state.get("frames")
final_frames ==
    IF IsSet(refined_frames) /\ Len(refined_frames[1]) > 0
    THEN refined_frames[1]
    ELSE frames[1]

\* The caller: returns once the graph has reached END.
generate_frames_advanced ==
    /\ pc = "end"
    /\ result' = Some([frames |-> final_frames,
                       quality_score |-> validation[1].overall_quality_score,
                       principles_applied |-> animation_principles[1],
                       iterations |-> iteration_count])
    /\ pc' = "done"
    /\ UNCHANGED <<keyframes, instruction, analysis, animation_principles, plan,
                   frames, refined_frames, validation, iteration_count, error, hist>>
    /\ UNCHANGED <<math_vars, ui_vars>>

-----------------------------------------------------------------------------
(* The run.                                                                *)

\* Requested frame counts explored (0: the instruction names none).
Instructions == {0, 1}

Keyframes == {"objects", "transparent"}

InitHist ==
    [analyzer_failed |-> FALSE, principles_failed |-> FALSE,
     validator_failed |-> FALSE, rife_failed |-> FALSE,
     n_plan |-> 0, n_generate |-> 0, n_replan |-> 0, n_refine |-> 0,
     n_is_available |-> 0,
     after_refine |-> FALSE, assessed |-> <<>>,
     last_strategy |-> "none", last_rife |-> "none",
     last_route |-> [quality |-> 0, iteration |-> 0, next |-> "none"]]

MathIdle == [fn |-> "idle"]

\* The frontend before anything is selected, typed or sent.
\* pollInterval = null
NoInterval == 0

AppIdle ==
    [frame1 |-> FALSE, frame2 |-> FALSE, instruction |-> 0,
     isGenerating |-> FALSE, error |-> FALSE]

HookIdle ==
    [jobStatus |-> Unset, isPolling |-> FALSE, error |-> FALSE,
     pollInterval |-> NoInterval]

NetIdle ==
    [mounted |-> TRUE,
     generating |-> {},      \* generateAnimation requests awaited
     n_requests |-> 0,       \* generateAnimation requests sent so far
     sent_unguarded |-> FALSE,
     intervals |-> {},       \* timers setInterval created and nobody cleared
     polling |-> {},         \* getJobStatus requests awaited
     n_polls |-> 0,          \* getJobStatus requests issued so far
     started |-> {},         \* jobs startPolling was called for
     current |-> 0,          \* job of the latest startPolling call (0: none)
     stopped |-> {},         \* jobs whose poll ended in stopPolling
     late_polls |-> 0]       \* getJobStatus requests issued for a stopped job

\* PreviewCanvas as first rendered: no frames, useState(0), useState(false),
\* useState(12).
CanvasIdle ==
    [frames |-> 0, currentFrameIndex |-> 0, isPlaying |-> FALSE, fps |-> 12,
     op |-> "mount"]

Init ==
    /\ pc = "analyzer"
    /\ keyframes \in Keyframes
    /\ instruction \in Instructions
    /\ analysis = Unset
    /\ animation_principles = Unset
    /\ plan = Unset
    /\ frames = Unset
    /\ refined_frames = Unset
    /\ validation = Unset
    /\ iteration_count = 0
    /\ error = "none"
    /\ result = Unset
    /\ hist = InitHist
    /\ m_args = MathIdle
    /\ m_out = MathIdle
    /\ app = AppIdle
    /\ hook = HookIdle
    /\ net = NetIdle
    /\ canvas = CanvasIdle

Next ==
    \/ analyzer_agent
    \/ principles_agent
    \/ planner_agent
    \/ generator_agent
    \/ validator_agent
    \/ validator_edge
    \/ refiner_agent
    \/ generate_frames_advanced

Spec == Init /\ [][Next]_vars

\* The graph runs every enabled node: a run does not stop half-way.
FairSpec == Spec /\ WF_vars(Next)

Terminal == pc \in {"done", "failed"}

-----------------------------------------------------------------------------
(* The planner's boundary: runs that enter PLANNER with any principle set  *)
(* and any requested count, also ones outside the detector's contract.     *)

PlannerInit ==
    /\ pc = "planner"
    /\ keyframes = "objects"
    /\ instruction \in {0, 1, 2, MaxFrames, MaxRequested}
    /\ analysis \in {Some(a) : a \in AnalyzerOutputs \cup {FallbackAnalysis}}
    /\ animation_principles \in {Some(p) : p \in AnyPrinciples}
    /\ plan = Unset
    /\ frames = Unset
    /\ refined_frames = Unset
    /\ validation = Unset
    /\ iteration_count = 0
    /\ error = "none"
    /\ result = Unset
    /\ hist = InitHist
    /\ m_args = MathIdle
    /\ m_out = MathIdle
    /\ app = AppIdle
    /\ hook = HookIdle
    /\ net = NetIdle
    /\ canvas = CanvasIdle

PlannerNext ==
    \/ planner_agent
    \/ generator_agent
    \/ validator_agent
    \/ validator_edge
    \/ refiner_agent
    \/ generate_frames_advanced

PlannerSpec == PlannerInit /\ [][PlannerNext]_vars

-----------------------------------------------------------------------------
(* The pure functions, applied to inputs drawn from bounded sets.          *)

\* Largest denominator of the progress values drawn.
MaxDen == 4

\* The progress values i/n in [0, 1].
TValues == {Rat(i, n) : i \in 0..MaxDen, n \in 1..MaxDen} \cap {t \in (0..MaxDen) \X (1..MaxDen) : t[1] <= t[2]}

Coordinates == {Rat(1, 5), Half, Rat(4, 5)}

Positions == Coordinates \X Coordinates

Intensities == {Zero, Rat(1, 2), One}

EaseInputs ==
    {[fn |-> "ease", t |-> t, curve |-> curve] : t \in TValues, curve \in TimingCurves}

ArcInputs ==
    {[fn |-> "arc", start_pos |-> start_pos, end_pos |-> end_pos, t |-> t,
      arc_type |-> arc_type, intensity |-> intensity] :
        start_pos \in Positions, end_pos \in Positions, t \in {Zero, Half, One},
        arc_type \in ArcTypes, intensity \in Intensities}

\* Without a requested count the energy decides; without an arc the intensity is 0.
PlanInputs ==
    {a \in [fn : {"plan"}, requested : 0..MaxRequested, energy : Energies,
            curve : TimingCurves, arc_type : ArcTypes, intensity : Intensities] :
        /\ a.requested # 0 => a.energy = "medium"
        /\ a.arc_type = "none" => a.intensity = Zero}

\* The dimensions a refiner pass is gated by.
DimensionNames == {"motion_smoothness", "artifact_score", "style_consistency"}

\* Reports in which each dimension is absent, below 7 or exactly 7.
PartialDimensions ==
    UNION {[S -> {PASS_THRESHOLD - 1, PASS_THRESHOLD}] : S \in SUBSET DimensionNames}

\* Sequences of two and three frames, with every such report.
RefineInputs ==
    {[fn |-> "refine", num_frames |-> n, dimensions |-> d] :
        n \in {2, 3}, d \in PartialDimensions}

\* apply_easing_curve on the drawn progress value and curve
ease_step ==
    /\ m_args.fn = "ease"
    /\ m_out = MathIdle
    /\ m_out' = [fn |-> "ease", value |-> apply_easing_curve(m_args.t, m_args.curve)]
    /\ UNCHANGED <<m_args, pipeline_vars, ui_vars>>

\* calculate_arc_path on the drawn positions, progress, arc type and intensity
arc_step ==
    /\ m_args.fn = "arc"
    /\ m_out = MathIdle
    /\ m_out' = [fn |-> "arc",
                 value |-> calculate_arc_path(m_args.start_pos, m_args.end_pos,
                                              m_args.arc_type, m_args.intensity,
                                              m_args.t)]
    /\ UNCHANGED <<m_args, pipeline_vars, ui_vars>>

\* build_plan on the drawn request, energy, curve and arc
plan_step ==
    /\ m_args.fn = "plan"
    /\ m_out = MathIdle
    /\ m_out' = [fn |-> "plan",
                 value |-> build_plan(m_args.requested, m_args.energy, m_args.curve,
                                      m_args.arc_type, m_args.intensity,
                                      Pos(1, 5, 1, 2), Pos(4, 5, 1, 2))]
    /\ UNCHANGED <<m_args, pipeline_vars, ui_vars>>

\* The refiner's passes on a generated sequence and the drawn report.
refine_step ==
    /\ m_args.fn = "refine"
    /\ m_out = MathIdle
    /\ m_out' = [fn |-> "refine",
                 value |-> refine_sequence(
                     generate_sequence(
                         build_plan(m_args.num_frames, "medium", "linear", "none",
                                    Zero, Pos(1, 5, 1, 2), Pos(4, 5, 1, 2)),
                         "object", 1),
                     validation_report(Q_END - 1, Some(m_args.dimensions),
                                       "claude_vision_validated"))]
    /\ UNCHANGED <<m_args, pipeline_vars, ui_vars>>

MathInit ==
    /\ pc = "analyzer"
    /\ keyframes = "objects"
    /\ instruction = 0
    /\ analysis = Unset
    /\ animation_principles = Unset
    /\ plan = Unset
    /\ frames = Unset
    /\ refined_frames = Unset
    /\ validation = Unset
    /\ iteration_count = 0
    /\ error = "none"
    /\ result = Unset
    /\ hist = InitHist
    /\ m_args \in EaseInputs \cup ArcInputs \cup PlanInputs \cup RefineInputs
    /\ m_out = MathIdle
    /\ app = AppIdle
    /\ hook = HookIdle
    /\ net = NetIdle
    /\ canvas = CanvasIdle

MathNext ==
    \/ ease_step
    \/ arc_step
    \/ plan_step
    \/ refine_step

MathSpec == MathInit /\ [][MathNext]_vars

-----------------------------------------------------------------------------
(* The frontend: the App component and the useJobStatus hook.  A render     *)
(* and the state it shows are one state; a callback closes over the state   *)
(* of the render that created it.                                           *)

\* canGenerate asks for instruction.length >= 5.
MIN_INSTRUCTION == 5

\* Instruction lengths the user types (empty, too short, long enough).
InstructionLengths == {0, MIN_INSTRUCTION - 1, MIN_INSTRUCTION}

\* Generate requests sent in a session, and getJobStatus requests counted
\* (the counters stop there, the polling does not).
MaxJobs == 2
MaxPolls == 3

JobStatuses == {"processing", "complete", "failed"}

\* frame1 && frame2 && instruction.length >= 5 && !isGenerating
canGenerate ==
    /\ app.frame1
    /\ app.frame2
    /\ app.instruction >= MIN_INSTRUCTION
    /\ ~app.isGenerating

\* disabled={isGenerating || isPolling} of the upload section and the textarea
inputs_disabled == app.isGenerating \/ hook.isPolling

clearInterval(n, id) == [n EXCEPT !.intervals = {iv \in @ : iv.id # id}]

\* setPollInterval(value); when the value changes, the cleanup of the effect
\* of the previous render clears the interval that render held.
setPollInterval(hn, value) ==
    [hook |-> [hn.hook EXCEPT !.pollInterval = value],
     net |-> IF hn.hook.pollInterval # value /\ hn.hook.pollInterval # NoInterval
             THEN clearInterval(hn.net, hn.hook.pollInterval)
             ELSE hn.net]

\* stopPolling as memoized in the render whose pollInterval was `captured`.
stopPolling(hn, captured) ==
    LET cleared == IF captured # NoInterval
                   THEN setPollInterval([hook |-> hn.hook,
                                         net |-> clearInterval(hn.net, captured)],
                                        NoInterval)
                   ELSE hn
    IN  [hook |-> [cleared.hook EXCEPT !.isPolling = FALSE], net |-> cleared.net]

\* The poll closure: one getJobStatus request for the job, bound to the
\* stopPolling its startPolling closed over.
poll(n, job, captured) ==
    [n EXCEPT !.polling = @ \cup {[job |-> job, captured |-> captured]},
              !.n_polls = IF @ < MaxPolls THEN @ + 1 ELSE @,
              !.late_polls = IF job \in n.stopped /\ @ < MaxPolls
                             THEN @ + 1 ELSE @]

\* startPolling(jobId) as memoized in the render whose pollInterval was
\* `captured`: polls at once and sets up the interval.
startPolling(hn, job, captured) ==
    LET polled == poll(hn.net, job, captured)
        timed == [polled EXCEPT
                     !.intervals = @ \cup {[id |-> job, job |-> job,
                                            captured |-> captured]},
                     !.started = @ \cup {job},
                     !.current = job]
    IN  setPollInterval([hook |-> [hn.hook EXCEPT !.isPolling = TRUE,
                                                  !.error = FALSE],
                         net |-> timed],
                        job)

setFrame1 ==
    /\ net.mounted /\ ~inputs_disabled
    /\ ~app.frame1
    /\ app' = [app EXCEPT !.frame1 = TRUE]
    /\ UNCHANGED <<hook, net, pipeline_vars, math_vars, canvas>>

setFrame2 ==
    /\ net.mounted /\ ~inputs_disabled
    /\ ~app.frame2
    /\ app' = [app EXCEPT !.frame2 = TRUE]
    /\ UNCHANGED <<hook, net, pipeline_vars, math_vars, canvas>>

setInstruction ==
    /\ net.mounted /\ ~inputs_disabled
    /\ \E len \in InstructionLengths \ {app.instruction} :
          app' = [app EXCEPT !.instruction = len]
    /\ UNCHANGED <<hook, net, pipeline_vars, math_vars, canvas>>

\* A click on the Generate button, which is disabled unless canGenerate.
handleGenerate ==
    /\ net.mounted
    /\ canGenerate
    /\ net.n_requests < MaxJobs
    /\ app' = [app EXCEPT !.isGenerating = TRUE, !.error = FALSE]
    /\ net' = [net EXCEPT
                 !.n_requests = @ + 1,
                 !.generating = @ \cup {[job |-> net.n_requests + 1,
                                         captured |-> hook.pollInterval]},
                 !.sent_unguarded = @ \/ ~(app.frame1 /\ app.frame2
                                            /\ app.instruction >= MIN_INSTRUCTION
                                            /\ ~app.isGenerating)]
    /\ UNCHANGED <<hook, pipeline_vars, math_vars, canvas>>

\* await generateAnimation(...) returns: startPolling(response.job_id)
generateAnimation_resolved ==
    /\ \E g \in net.generating :
          LET hn == startPolling([hook |-> hook,
                                  net |-> [net EXCEPT !.generating = @ \ {g}]],
                                 g.job, g.captured)
          IN  /\ hook' = hn.hook
              /\ net' = hn.net
    /\ UNCHANGED <<app, pipeline_vars, math_vars, canvas>>

\* await generateAnimation(...) throws
generateAnimation_rejected ==
    /\ \E g \in net.generating :
          net' = [net EXCEPT !.generating = @ \ {g}]
    /\ app' = [app EXCEPT !.error = TRUE, !.isGenerating = FALSE]
    /\ UNCHANGED <<hook, pipeline_vars, math_vars, canvas>>

\* setInterval(poll, 2000) fires
interval_fires ==
    /\ \E iv \in net.intervals : net' = poll(net, iv.job, iv.captured)
    /\ UNCHANGED <<app, hook, pipeline_vars, math_vars, canvas>>

\* await getJobStatus(jobId) returns a status
getJobStatus_resolved ==
    /\ \E p \in net.polling, status \in JobStatuses :
          LET answered == [hook |-> [hook EXCEPT !.jobStatus =
                                        Some([job_id |-> p.job, status |-> status])],
                           net |-> [net EXCEPT !.polling = @ \ {p}]]
              hn == IF status \in {"complete", "failed"}
                    THEN stopPolling([hook |-> answered.hook,
                                      net |-> [answered.net EXCEPT
                                                  !.stopped = @ \cup {p.job}]],
                                     p.captured)
                    ELSE answered
          IN  /\ hook' = hn.hook
              /\ net' = hn.net
    /\ UNCHANGED <<app, pipeline_vars, math_vars, canvas>>

\* await getJobStatus(jobId) throws
getJobStatus_rejected ==
    /\ \E p \in net.polling :
          LET hn == stopPolling([hook |-> [hook EXCEPT !.error = TRUE],
                                 net |-> [net EXCEPT !.polling = @ \ {p},
                                                     !.stopped = @ \cup {p.job}]],
                                p.captured)
          IN  /\ hook' = hn.hook
              /\ net' = hn.net
    /\ UNCHANGED <<app, pipeline_vars, math_vars, canvas>>

\* A click on Reset, shown when isGenerating || isPolling || jobStatus.
handleReset ==
    /\ net.mounted
    /\ app.isGenerating \/ hook.isPolling \/ IsSet(hook.jobStatus)
    /\ app' = [app EXCEPT !.frame1 = FALSE, !.frame2 = FALSE, !.instruction = 0,
                          !.isGenerating = FALSE, !.error = FALSE]
    /\ app' # app
    /\ UNCHANGED <<hook, net, pipeline_vars, math_vars, canvas>>

\* The component unmounts: the effect's cleanup clears the current interval.
unmount ==
    /\ net.mounted
    /\ net' = [(IF hook.pollInterval # NoInterval
                THEN clearInterval(net, hook.pollInterval)
                ELSE net) EXCEPT !.mounted = FALSE]
    /\ UNCHANGED <<app, hook, pipeline_vars, math_vars, canvas>>

UiInit ==
    /\ pc = "analyzer"
    /\ keyframes = "objects"
    /\ instruction = 0
    /\ analysis = Unset
    /\ animation_principles = Unset
    /\ plan = Unset
    /\ frames = Unset
    /\ refined_frames = Unset
    /\ validation = Unset
    /\ iteration_count = 0
    /\ error = "none"
    /\ result = Unset
    /\ hist = InitHist
    /\ m_args = MathIdle
    /\ m_out = MathIdle
    /\ app = AppIdle
    /\ hook = HookIdle
    /\ net = NetIdle
    /\ canvas = CanvasIdle

UiNext ==
    \/ setFrame1
    \/ setFrame2
    \/ setInstruction
    \/ handleGenerate
    \/ generateAnimation_resolved
    \/ generateAnimation_rejected
    \/ interval_fires
    \/ getJobStatus_resolved
    \/ getJobStatus_rejected
    \/ handleReset
    \/ unmount

UiSpec == UiInit /\ [][UiNext]_vars

\* Requests are answered and timers fire; the user is free to do nothing.
UiFairSpec ==
    /\ UiSpec
    /\ WF_vars(generateAnimation_resolved \/ generateAnimation_rejected)
    /\ WF_vars(getJobStatus_resolved \/ getJobStatus_rejected)
    /\ WF_vars(interval_fires)

-----------------------------------------------------------------------------
(* The frontend: the PreviewCanvas component.  frames is the length of the  *)
(* frames prop (0: no frames), op the handler that ran last.                *)

\* Longest frame list shown.
MaxPreviewFrames == 4

\* The options of the FPS select.
FpsOptions == {6, 12, 24, 30}

\* frames && frames.length > 0
hasFrames == canvas.frames > 0

\* The parent renders the component with another frames prop; the state of
\* the component is kept.
frames_replaced ==
    /\ \E n \in 0..MaxPreviewFrames :
          /\ n # canvas.frames
          /\ canvas' = [canvas EXCEPT !.frames = n, !.op = "frames"]
    /\ UNCHANGED <<app, hook, net, pipeline_vars, math_vars>>

handlePlayPause ==
    /\ hasFrames
    /\ canvas' = [canvas EXCEPT !.isPlaying = ~@, !.op = "play"]
    /\ UNCHANGED <<app, hook, net, pipeline_vars, math_vars>>

handlePrevFrame ==
    /\ hasFrames
    /\ canvas' = [canvas EXCEPT
                    !.currentFrameIndex = (@ - 1 + canvas.frames) % canvas.frames,
                    !.isPlaying = FALSE,
                    !.op = "prev"]
    /\ UNCHANGED <<app, hook, net, pipeline_vars, math_vars>>

handleNextFrame ==
    /\ hasFrames
    /\ canvas' = [canvas EXCEPT
                    !.currentFrameIndex = (@ + 1) % canvas.frames,
                    !.isPlaying = FALSE,
                    !.op = "next"]
    /\ UNCHANGED <<app, hook, net, pipeline_vars, math_vars>>

\* The slider, min 0 and max frames.length - 1.
handleFrameChange ==
    /\ hasFrames
    /\ \E value \in 0..(canvas.frames - 1) :
          canvas' = [canvas EXCEPT !.currentFrameIndex = value,
                                   !.isPlaying = FALSE,
                                   !.op = "scrub"]
    /\ UNCHANGED <<app, hook, net, pipeline_vars, math_vars>>

\* The auto-play interval fires.
auto_play ==
    /\ canvas.isPlaying
    /\ hasFrames
    /\ canvas' = [canvas EXCEPT
                    !.currentFrameIndex = (@ + 1) % canvas.frames,
                    !.op = "tick"]
    /\ UNCHANGED <<app, hook, net, pipeline_vars, math_vars>>

setFps ==
    /\ hasFrames
    /\ \E f \in FpsOptions \ {canvas.fps} :
          canvas' = [canvas EXCEPT !.fps = f, !.op = "fps"]
    /\ UNCHANGED <<app, hook, net, pipeline_vars, math_vars>>

PreviewNext ==
    \/ frames_replaced
    \/ handlePlayPause
    \/ handlePrevFrame
    \/ handleNextFrame
    \/ handleFrameChange
    \/ auto_play
    \/ setFps

PreviewSpec == UiInit /\ [][PreviewNext]_vars

-----------------------------------------------------------------------------
(* Properties.                                                             *)

\* C1: whatever overall scores the Validator returns, a run takes at most 3
\* loop transitions (replans and refines together) and comes to an end.
C1_BoundedLoop == [](Loops <= 3) /\ <>Terminal

C1_Witness == pc = "done" /\ Loops = 3

\* C2: the state after Validate is given by the transition table on
\* (overall_score, iteration_count): >= 8.0 Done; < 6.0 with count < 2 Plan;
\* 6.0 <= score < 8.0 with count < 3 Refine; otherwise Done.  So no replan
\* is taken with count >= 2 and no refine with count >= 3.
C2_RoutingTable ==
    [][pc = "route" =>
        LET score == validation[1].overall_quality_score
            count == iteration_count
            next == IF score >= 80 THEN "end"
                    ELSE IF score < 60 /\ count < 2 THEN "planner"
                    ELSE IF 60 <= score /\ score < 80 /\ count < 3 THEN "refiner"
                    ELSE "end"
        IN  /\ pc' = next
            /\ pc' = "planner" => count < 2
            /\ pc' = "refiner" => count < 3]_vars

C2_Witness ==
    /\ hist.last_route.next = "end"
    /\ hist.last_route.quality >= 60
    /\ hist.last_route.quality < 80
    /\ hist.last_route.iteration >= 3

C4_NoObjectFoundIsFatal ==
    (keyframes = "transparent" /\ hist.n_generate > 0) =>
        /\ pc = "failed"
        /\ error = "NoObjectFound"
        /\ frames = Unset
        /\ result = Unset

C8_ScheduleEndpoints ==
    m_out.fn = "plan" =>
        LET p == m_out.value
        IN  /\ p.num_frames \in 2..32
            /\ p.frame_schedule[1].t = Zero
            /\ p.frame_schedule[p.num_frames].t = One

C8_Witness ==
    /\ m_out.fn = "plan"
    /\ m_out.value.num_frames = 32
    /\ m_out.value.timing_curve = "ease-in-out"

\* C9: for each of the four curves, ease(0, curve) = 0 and ease(1, curve) = 1.
C9_EaseEndpoints ==
    (m_out.fn = "ease" /\ m_args.t \in {Zero, One}) => m_out.value = m_args.t

C9_Witness ==
    /\ m_out.fn = "ease"
    /\ m_args.curve = "ease-in-out"
    /\ m_args.t = One
    /\ m_out.value = One

\* C10: for every arc type, intensity in [0, 1] and start and end position,
\* arc_position at t = 0 is the start position and at t = 1 the end position.
C10_ArcEndpoints ==
    m_out.fn = "arc" =>
        /\ m_args.t = Zero => m_out.value = m_args.start_pos
        /\ m_args.t = One => m_out.value = m_args.end_pos

C10_Witness ==
    /\ m_out.fn = "arc"
    /\ m_args.arc_type = "parabolic"
    /\ m_args.intensity = One
    /\ m_args.start_pos[1] # m_args.end_pos[1]
    /\ m_args.t = One
    /\ m_out.value = m_args.end_pos

\* C11: for arc type parabolic the position has x interpolated linearly and
\* y interpolated linearly and offset by -4 * H * t * (1 - t), where
\* H = distance * intensity * 0.3 and distance is the distance between start
\* and end over both axes (stated on squares, the distance being a root).
C11_ParabolicArcBothAxes ==
    (m_out.fn = "arc" /\ m_args.arc_type = "parabolic") =>
        LET s == m_args.start_pos
            e == m_args.end_pos
            t == m_args.t
            dx == RSub(e[1], s[1])
            dy == RSub(e[2], s[2])
            squared_distance == RAdd(RMul(dx, dx), RMul(dy, dy))
            offset == RSub(m_out.value[2], lerp(s[2], e[2], t))
            k == RMul(RMul(m_args.intensity, Rat(3, 10)),
                      RMul(Rat(4, 1), RMul(t, RSub(One, t))))
        IN  /\ m_out.value[1] = lerp(s[1], e[1], t)
            /\ RLe(offset, Zero)
            /\ RMul(offset, offset) = RMul(squared_distance, RMul(k, k))

C15_RefinePreservesSequence ==
    [][pc = "refiner" =>
        /\ frames' = frames
        /\ \A k \in 1..Len(frames[1]) :
              /\ ~frames[1][k].refined
              /\ frames[1][k].passes = {}
        /\ IsSet(refined_frames')
        /\ Len(refined_frames'[1]) = Len(frames[1])
        /\ \A k \in 1..Len(frames[1]) :
              /\ refined_frames'[1][k].refined
              /\ refined_frames'[1][k].frame_index = frames[1][k].frame_index
              /\ refined_frames'[1][k].t = frames[1][k].t]_vars

C15_Witness ==
    /\ IsSet(refined_frames)
    /\ Len(refined_frames[1]) = 8
    /\ Len(frames[1]) = 8
    /\ refined_frames[1][1].passes = {"temporal_smooth", "alpha_cleanup", "color_norm"}
    /\ frames[1][1].passes = {}

\* C16: in every frame sequence held or returned (the generated frames, the
\* refined frames, the result's frames) the first frame is the rendering of
\* the start keyframe (t = 0, nothing blended in) and the last frame the
\* rendering of the end keyframe (t = 1, nothing blended in).
C16_KeyframesAtTheEnds ==
    LET ends_are_keyframes(fs) ==
            /\ fs[1].t = Zero
            /\ fs[1].sources = {0}
            /\ fs[Len(fs)].t = One
            /\ fs[Len(fs)].sources = {Len(fs) - 1}
    IN  /\ IsSet(frames) => ends_are_keyframes(frames[1])
        /\ IsSet(refined_frames) => ends_are_keyframes(refined_frames[1])
        /\ IsSet(result) => ends_are_keyframes(result[1].frames)

\* C17: once a poll of a job has answered complete or failed, or has failed
\* itself, no further getJobStatus request is issued for that job, and
\* isPolling is false once every job polled has ended so.
C17_PollingStops ==
    /\ net.late_polls = 0
    /\ (net.started # {} /\ net.started = net.stopped) => ~hook.isPolling

\* C18: a generateAnimation request is only sent with both keyframes
\* selected, an instruction of at least 5 characters and isGenerating false,
\* and two generateAnimation requests are never awaited at once.
C18_OneGenerateAtATime ==
    /\ ~net.sent_unguarded
    /\ Cardinality(net.generating) <= 1

\* C19: iteration_count changes only at a replan or a refine decision of the
\* conditional edge and then grows by exactly 1, it never exceeds 3, and the
\* iterations value of the result is the number of replans plus refines.
C19_IterationCountCountsLoops ==
    [][/\ iteration_count' # iteration_count =>
              /\ pc = "route"
              /\ pc' \in {"planner", "refiner"}
              /\ iteration_count' = iteration_count + 1
       /\ iteration_count' <= REFINE_BUDGET
       /\ IsSet(result') =>
              result'[1].iterations = hist'.n_replan + hist'.n_refine]_vars

\* C20 as stated: a run is done with an overall score below 8.0 only when
\* iteration_count has reached 3.
C20_BestEffortOnlyAtBudget ==
    (pc = "done" /\ result[1].quality_score < Q_END) =>
        iteration_count >= REFINE_BUDGET

\* C20: a run is done with an overall score below 8.0 only when the score
\* admits no further loop: below 6.0 with iteration_count at least 2, or
\* at least 6.0 with iteration_count at least 3.
C20_BestEffortOnlyWhenNoLoopLeft ==
    (pc = "done" /\ result[1].quality_score < Q_END) =>
        \/ result[1].quality_score < 60 /\ iteration_count >= 2
        \/ result[1].quality_score >= 60 /\ iteration_count >= 3

\* A run done with a score below 6.0 after two replans.
C20_Witness ==
    /\ pc = "done"
    /\ result[1].quality_score < Q_REPLAN
    /\ iteration_count = REPLAN_BUDGET
    /\ hist.n_replan = REPLAN_BUDGET

\* C21: analysis and principles keep their value once set, and
\* plan, frames and validation are cleared by a replan transition and by
\* nothing else: a replan leaves all three unset when Plan is re-entered.
C21_ReplanDiscardsAttempt ==
    [][/\ IsSet(analysis) => analysis' = analysis
       /\ IsSet(animation_principles) =>
              animation_principles' = animation_principles
       /\ keyframes' = keyframes
       /\ instruction' = instruction
       /\ (pc = "route" /\ pc' = "planner") =>
              /\ ~IsSet(plan')
              /\ ~IsSet(frames')
              /\ ~IsSet(validation')
       /\ (\/ IsSet(plan) /\ ~IsSet(plan')
           \/ IsSet(frames) /\ ~IsSet(frames')
           \/ IsSet(validation) /\ ~IsSet(validation')) =>
              (pc = "route" /\ pc' = "planner")]_vars

\* C22: the frame_schedule of a plan has exactly frame_count entries, entry i
\* (from 0) has frame_index i and t_linear = i / (frame_count - 1), t_linear
\* grows strictly from 0 to 1, and for frame_count = 2 the schedule is the two
\* entries t_linear = 0 and t_linear = 1 (the division is by 1).
C22_ScheduleShape ==
    m_out.fn = "plan" =>
        LET p == m_out.value
            n == p.num_frames
            sch == p.frame_schedule
        IN  /\ n >= 2
            /\ Len(sch) = n
            /\ \A k \in 1..n :
                  /\ sch[k].frame_index = k - 1
                  /\ sch[k].t_linear[2] > 0
                  /\ sch[k].t_linear[1] * (n - 1) = (k - 1) * sch[k].t_linear[2]
            /\ \A k \in 1..(n - 1) : RLt(sch[k].t_linear, sch[k + 1].t_linear)
            /\ sch[1].t_linear = Zero
            /\ sch[n].t_linear = One
            /\ n = 2 => <<sch[1].t_linear, sch[2].t_linear>> = <<Zero, One>>

\* A plan of two frames: the keyframes only.
C22_Witness ==
    /\ m_out.fn = "plan"
    /\ m_args.requested = 2
    /\ m_out.value.num_frames = 2
    /\ Len(m_out.value.frame_schedule) = 2
    /\ m_out.value.frame_schedule[2].t_linear = One

\* C23 as stated: in a plan whose arc_type is not none every schedule entry
\* carries an arc_position, for every arc_intensity in [0, 1], 0 included;
\* in a plan whose arc_type is none no entry carries one.
C23_ArcPositionOnEveryArcPlan ==
    m_out.fn = "plan" =>
        LET p == m_out.value
        IN  \A k \in 1..Len(p.frame_schedule) :
                IsSet(p.frame_schedule[k].arc_position) <=> p.arc_type # "none"

\* C23: in a plan whose arc_type is not none and whose arc_intensity is above
\* 0 every schedule entry carries an arc_position, the arc's point at that
\* entry's t_eased, so the first entry's is the start position and the last
\* entry's the end position; in a plan whose arc_type is none or whose
\* arc_intensity is 0 no entry carries one.
C23_ArcPositionWhenArcPlanned ==
    m_out.fn = "plan" =>
        LET p == m_out.value
            sch == p.frame_schedule
            n == Len(sch)
        IN  IF p.arc_type # "none" /\ p.arc_intensity # Zero
            THEN /\ \A k \in 1..n :
                       /\ IsSet(sch[k].arc_position)
                       /\ sch[k].arc_position[1] =
                              calculate_arc_path(p.start_position, p.end_position,
                                                 p.arc_type, p.arc_intensity,
                                                 sch[k].t)
                 /\ sch[1].arc_position[1] = p.start_position
                 /\ sch[n].arc_position[1] = p.end_position
            ELSE \A k \in 1..n : ~IsSet(sch[k].arc_position)

\* An eased parabolic plan: the positions follow t_eased, off the straight line.
C23_Witness ==
    /\ m_out.fn = "plan"
    /\ m_out.value.arc_type = "parabolic"
    /\ m_out.value.arc_intensity = One
    /\ m_out.value.timing_curve = "ease-in"
    /\ m_out.value.num_frames = 8
    /\ IsSet(m_out.value.frame_schedule[4].arc_position)
    /\ m_out.value.frame_schedule[4].arc_position[1][2] # m_out.value.start_position[2]

\* C24: in a Refine step temporal smoothing runs exactly when
\* motion_smoothness is present and below 7.0, alpha cleanup exactly when
\* artifact_score is, color normalization exactly when style_consistency is,
\* each whatever the other two score; a score of exactly 7.0 or an absent
\* score runs no pass, and with no pass run every frame keeps its content.
C24_PassesGatedBySubScores ==
    m_out.fn = "refine" =>
        LET d == m_args.dimensions
            below(name) == name \in DOMAIN d /\ d[name] < 70
            expected ==
                {pass \in {"temporal_smooth", "alpha_cleanup", "color_norm"} :
                    \/ pass = "temporal_smooth" /\ below("motion_smoothness")
                    \/ pass = "alpha_cleanup" /\ below("artifact_score")
                    \/ pass = "color_norm" /\ below("style_consistency")}
        IN  /\ Len(m_out.value) = m_args.num_frames
            /\ \A k \in 1..Len(m_out.value) :
                  /\ m_out.value[k].passes = expected
                  /\ "temporal_smooth" \notin expected =>
                        m_out.value[k].sources = {k - 1}

\* Smoothing alone: motion below 7, artifacts exactly 7, style not reported.
C24_Witness ==
    /\ m_out.fn = "refine"
    /\ m_args.num_frames = 3
    /\ DOMAIN m_args.dimensions = {"motion_smoothness", "artifact_score"}
    /\ m_args.dimensions["motion_smoothness"] = 69
    /\ m_args.dimensions["artifact_score"] = 70
    /\ m_out.value[2].passes = {"temporal_smooth"}
    /\ m_out.value[2].sources = {0, 1, 2}

\* C25: is_available() is called at most once during a run, also when
\* Generate is entered again after a replan, and every Generate pass works
\* with the answer of that one call.
C25_AvailabilityQueriedOnce ==
    [][pc = "generator" =>
        /\ hist'.n_is_available <= 1
        /\ hist.n_generate > 0 =>
              (hist'.last_rife = "unavailable") = (hist.last_rife = "unavailable")]_vars

\* C26: the Validate step that follows a Refine step assesses the Refiner's
\* output: the frames sampled for the Validator are refined frames, those of
\* the sequence the Refiner just wrote.
C26_ValidatorAssessesRefinedFrames ==
    (pc = "route" /\ hist.after_refine) =>
        /\ \A j \in 1..Len(hist.assessed) : hist.assessed[j].refined
        /\ hist.assessed = sample_frames(refined_frames[1])

\* C27: the frames returned at Done are the sequence the last Validate step
\* assessed, and they belong to the current plan: as many frames as the
\* plan's frame_count, none of them generated or refined under a plan that a
\* replan discarded.
C27_ReturnsWhatWasAssessed ==
    IsSet(result) =>
        /\ sample_frames(result[1].frames) = hist.assessed
        /\ Len(result[1].frames) = plan[1].num_frames
        /\ \A k \in 1..Len(result[1].frames) :
              result[1].frames[k].plan_rev = hist.n_plan

\* C28: once startPolling has been called for a later job, a poll response
\* for an earlier job changes neither jobStatus nor isPolling: jobStatus is
\* not set to a status of the earlier job and isPolling is not set to false.
C28_LateResponseIgnored ==
    [][\A p \in net.polling \ net'.polling :
          p.job # net.current =>
              /\ hook'.jobStatus = hook.jobStatus
              /\ hook.isPolling => hook'.isPolling]_vars

\* C29: in PreviewCanvas, whenever frames is non-empty, currentFrameIndex is
\* an index into frames, after next, previous, scrub and auto-play steps and
\* after the frames prop is replaced by a list of another length; next and
\* previous wrap around at the ends; next, previous and scrub stop playback.
C29_FrameIndexValid ==
    [][/\ canvas'.frames > 0 =>
              canvas'.currentFrameIndex \in 0..(canvas'.frames - 1)
       /\ (canvas'.op = "next" /\ canvas.currentFrameIndex = canvas.frames - 1) =>
              canvas'.currentFrameIndex = 0
       /\ (canvas'.op = "prev" /\ canvas.currentFrameIndex = 0) =>
              canvas'.currentFrameIndex = canvas.frames - 1
       /\ canvas'.op \in {"next", "prev", "scrub"} => ~canvas'.isPlaying]_vars

\* C30: once a job started from the App has been reported complete or failed,
\* the App eventually leaves the busy state, also if Reset is never pressed:
\* isGenerating and isPolling are both false (unless the App is closed).
C30_LeavesBusyState ==
    (/\ IsSet(hook.jobStatus)
     /\ hook.jobStatus[1].status \in {"complete", "failed"})
        ~> (\/ ~app.isGenerating /\ ~hook.isPolling
            \/ ~net.mounted)

====
